---------------------------- MODULE Spec2Model ----------------------------
(***************************************************************************)
(* muralis-gui: the application entry point (main.cpp) and the process     *)
(* bridge ProcessRunner (processrunner.h / processrunner.cpp).             *)
(*                                                                         *)
(* The UI thread is one sequential process: main() runs its statements in  *)
(* order, QML code may call ProcessRunner::run while the UI description is *)
(* being loaded or from a handler of the event loop, and the callbacks of  *)
(* the event loop (a child's completion, a deferred deletion) run only     *)
(* while app.exec() is running and no other handler is on the stack.  The  *)
(* operating system (the launch of a child, what it writes, its exit) runs *)
(* concurrently with the UI thread.                                        *)
(***************************************************************************)
EXTENDS Integers, Sequences, FiniteSets, TLC

VARIABLES
    sessionFile,   \* the session.json file on disk: [status, text]
    mainPc,        \* position of main()
    session,       \* main.cpp:41  the QJsonObject read from the session file
    isDark,        \* main.cpp:42
    env,           \* the process environment variables main sets
    rootObjects,   \* number of root objects of the QML engine after load
    execEntered,   \* history: app.exec() has been entered
    exitStatus,    \* exit status of the process once main has returned
    runnerAlive,   \* the ProcessRunner object exists
    procs,         \* the QProcess objects, in order of creation
    connections,   \* the signal connections made by ProcessRunner::run
    emitted,       \* per run call, the ProcessRunner::finished events its
                   \* callback has emitted, in order
    uiBusy,        \* 0, or the run call the UI thread is executing
    useAfterFree   \* history: a callback touched a deleted QProcess

vars == <<sessionFile, mainPc, session, isDark, env, rootObjects, execEntered,
          exitStatus, runnerAlive, procs, connections, emitted, uiBusy,
          useAfterFree>>

mainVars == <<sessionFile, mainPc, session, isDark, env, rootObjects,
              execEntered, exitStatus>>

runnerVars == <<procs, connections, emitted, uiBusy, useAfterFree>>

-----------------------------------------------------------------------------
(* Bounds of the model.                                                    *)

\* most calls of ProcessRunner::run in one behaviour
MaxRuns == 2
\* most writes to standard output, all children together
MaxWrites == 1
\* most bytes of standard error held unread, all children together
MaxErrHeld == 1

RequestIds == {"r1", "r2"}
ArgLists == {<<"list">>}
\* what one write of a child carries: U+00E9 (C3 A9), or 'A' and then the
\* lead byte C3 with no continuation byte.  Every byte is below 0xE0, so
\* only one- and two-byte sequences occur.
OutChunks == {<<195, 169>>, <<65, 195>>}
ErrChunks == {<<69>>}
\* how a child ends: exit code and exit status
ChildEnds == {<<0, "NormalExit">>, <<1, "CrashExit">>}
\* engine.load of one URL yields one root object, or none
RootCounts == {0, 1}
\* what app.exec() returns when the event loop is left by quit()
ExecResults == {0}

-----------------------------------------------------------------------------
(* JSON: QJsonDocument::fromJson(...).object(), over token sequences.      *)

Punct(c) == [k |-> "punct", v |-> c]
Str(s) == [k |-> "string", v |-> s]
Lit(s) == [k |-> "literal", v |-> s]
Num(s) == [k |-> "number", v |-> s]

JBool(b) == [type |-> "Bool", b |-> b]
JNull == [type |-> "Null"]
JNumber(n) == [type |-> "Double", n |-> n]
JString(s) == [type |-> "String", s |-> s]
JObject(m) == [type |-> "Object", members |-> m]
JArray(a) == [type |-> "Array", elements |-> a]
JUndefined == [type |-> "Undefined"]

EmptyObject == [k \in {} |-> JUndefined]

ParseFail == [ok |-> FALSE, val |-> JUndefined, next |-> 0]
ParseOk(v, n) == [ok |-> TRUE, val |-> v, next |-> n]

Insert(obj, key, v) ==
    [k \in DOMAIN obj \cup {key} |-> IF k = key THEN v ELSE obj[k]]

IsTok(toks, i, t) == i <= Len(toks) /\ toks[i] = t

RECURSIVE ParseValue(_, _), ParseMembers(_, _, _), ParseElements(_, _, _)

\* one JSON value starting at token i
ParseValue(toks, i) ==
    IF i > Len(toks) THEN ParseFail
    ELSE LET t == toks[i] IN
         CASE t.k = "literal" /\ t.v = "true" -> ParseOk(JBool(TRUE), i + 1)
           [] t.k = "literal" /\ t.v = "false" -> ParseOk(JBool(FALSE), i + 1)
           [] t.k = "literal" /\ t.v = "null" -> ParseOk(JNull, i + 1)
           [] t.k = "number" -> ParseOk(JNumber(t.v), i + 1)
           [] t.k = "string" -> ParseOk(JString(t.v), i + 1)
           [] t = Punct("{") ->
                IF IsTok(toks, i + 1, Punct("}"))
                THEN ParseOk(JObject(EmptyObject), i + 2)
                ELSE ParseMembers(toks, i + 1, EmptyObject)
           [] t = Punct("[") ->
                IF IsTok(toks, i + 1, Punct("]"))
                THEN ParseOk(JArray(<<>>), i + 2)
                ELSE ParseElements(toks, i + 1, <<>>)
           [] OTHER -> ParseFail

\* key : value { , key : value } "}"  starting at token i
ParseMembers(toks, i, obj) ==
    IF ~(i <= Len(toks) /\ toks[i].k = "string" /\ IsTok(toks, i + 1, Punct(":")))
    THEN ParseFail
    ELSE LET r == ParseValue(toks, i + 2) IN
         IF ~r.ok THEN ParseFail
         ELSE LET obj2 == Insert(obj, toks[i].v, r.val) IN
              IF IsTok(toks, r.next, Punct("}"))
              THEN ParseOk(JObject(obj2), r.next + 1)
              ELSE IF IsTok(toks, r.next, Punct(","))
                   THEN ParseMembers(toks, r.next + 1, obj2)
                   ELSE ParseFail

\* value { , value } "]"  starting at token i
ParseElements(toks, i, arr) ==
    LET r == ParseValue(toks, i) IN
    IF ~r.ok THEN ParseFail
    ELSE LET arr2 == Append(arr, r.val) IN
         IF IsTok(toks, r.next, Punct("]"))
         THEN ParseOk(JArray(arr2), r.next + 1)
         ELSE IF IsTok(toks, r.next, Punct(","))
              THEN ParseElements(toks, r.next + 1, arr2)
              ELSE ParseFail

\* QJsonDocument::fromJson: a document is an object or an array that spans
\* the whole text; anything else gives the null document
fromJson(toks) ==
    LET r == ParseValue(toks, 1) IN
    IF r.ok /\ r.next = Len(toks) + 1 /\ r.val.type \in {"Object", "Array"}
    THEN r.val
    ELSE JNull

\* QJsonDocument::object(): the empty object unless the document is an object
DocObject(doc) == IF doc.type = "Object" THEN doc.members ELSE EmptyObject

\* QJsonObject::value(key)
ObjectValue(obj, key) == IF key \in DOMAIN obj THEN obj[key] ELSE JUndefined

\* QJsonValue::toBool(defaultValue)
toBool(val, defaultValue) == IF val.type = "Bool" THEN val.b ELSE defaultValue

\* main.cpp:28-32
readJsonFile(file) ==
    IF file.status # "ok" THEN EmptyObject
    ELSE DocObject(fromJson(file.text))


-----------------------------------------------------------------------------
(* The session files the model starts from.                                *)

LB == Punct("{")
RB == Punct("}")
LS == Punct("[")
RS == Punct("]")
COLON == Punct(":")
COMMA == Punct(",")
KeyLight == Str("isLightMode")
KeyOther == Str("other")
TrueTok == Lit("true")
FalseTok == Lit("false")

\* texts that are a JSON object whose "isLightMode" member is the boolean true
LightTexts ==
    { <<LB, KeyLight, COLON, TrueTok, RB>>,
      <<LB, KeyOther, COLON, Num("1"), COMMA, KeyLight, COLON, TrueTok, RB>>,
      <<LB, KeyLight, COLON, TrueTok, COMMA, KeyOther, COLON, FalseTok, RB>> }

\* every other text: member false, absent, not a boolean; not an object;
\* not JSON at all
OtherTexts ==
    { <<>>,
      <<LB, RB>>,
      <<LB, KeyLight, COLON, FalseTok, RB>>,
      <<LB, KeyLight, COLON, Str("true"), RB>>,
      <<LB, KeyLight, COLON, Num("1"), RB>>,
      <<LB, KeyLight, COLON, Lit("null"), RB>>,
      <<LB, KeyOther, COLON, TrueTok, RB>>,
      <<LB, KeyLight, COLON, LB, KeyLight, COLON, TrueTok, RB, RB>>,
      <<LB, KeyLight, COLON, LS, TrueTok, RS, RB>>,
      <<LB, KeyOther, COLON, LB, KeyLight, COLON, TrueTok, RB, RB>>,
      <<LS, TrueTok, RS>>,
      <<LS, LB, KeyLight, COLON, TrueTok, RB, RS>>,
      <<TrueTok>>,
      <<LB, KeyLight, COLON, TrueTok>>,
      <<LB, KeyLight, TrueTok, RB>>,
      <<LB, KeyLight, COLON, TrueTok, COMMA, RB>>,
      <<LB, KeyLight, COLON, TrueTok, RB, RB>>,
      <<KeyLight, COLON, TrueTok>> }

SessionTexts == LightTexts \cup OtherTexts

SessionFiles ==
    { [status |-> "missing", text |-> <<>>],
      [status |-> "unreadable", text |-> <<LB, KeyLight, COLON, TrueTok, RB>>] }
    \cup { [status |-> "ok", text |-> t] : t \in SessionTexts }

-----------------------------------------------------------------------------
(* UTF-8: QString::fromUtf8, for bytes below 0xE0.                         *)

RECURSIVE fromUtf8(_)
\* processrunner.cpp:9  a byte below 0x80 is itself; a lead byte C2..DF with
\* a continuation byte 80..BF is one character; any other byte becomes
\* U+FFFD and decoding resumes at the next byte
fromUtf8(bytes) ==
    IF bytes = <<>> THEN <<>>
    ELSE LET b == Head(bytes)
             rest == Tail(bytes)
         IN  IF b < 128 THEN <<b>> \o fromUtf8(rest)
             ELSE IF b \in 194..223 /\ rest # <<>> /\ Head(rest) \in 128..191
                  THEN <<(b - 192) * 64 + (Head(rest) - 128)>> \o fromUtf8(Tail(rest))
                  ELSE <<65533>> \o fromUtf8(rest)

-----------------------------------------------------------------------------
(* ProcessRunner: the QProcess objects, their connections, the callback.   *)

Program == "muralis"

\* (variant) the two output channels merged into one
processChannelModeMerged == "MergedChannels"

\* a QProcess created without setProcessChannelMode keeps the two output
\* channels of its child apart
processChannelMode == "SeparateChannels"

\* (variant) deleteLater called in run itself, right after start
NewProcessReleased(requestId, args) ==
    [ requestId |-> requestId, program |-> Program, arguments |-> args,
      state |-> "Starting", error |-> "UnknownError", starts |-> 1,
      exitCode |-> 0, exitStatus |-> "NormalExit", stdoutBuf |-> <<>>,
      stderrBuf |-> <<>>, wrote |-> <<>>, writes |-> 0,
      obj |-> "deleteLater", ret |-> "inside" ]

\* processrunner.cpp:6,13  the object run creates and starts: owned by the
\* ProcessRunner, alive, its child not yet launched
NewProcess(requestId, args) ==
    [ requestId  |-> requestId,       \* the argument of this run call
      program    |-> Program,
      arguments  |-> args,
      state      |-> "Starting",      \* Starting, Running, Exited, NotRunning
      error      |-> "UnknownError",  \* QProcess::error()
      starts     |-> 1,               \* launches attempted for this call
      exitCode   |-> 0,
      exitStatus |-> "NormalExit",
      stdoutBuf  |-> <<>>,            \* bytes captured and not yet read
      stderrBuf  |-> <<>>,
      wrote      |-> <<>>,            \* history: all the child wrote to stdout
      writes     |-> 0,               \* history: writes to stdout
      obj        |-> "live",          \* live, deleteLater, deleted, destroyed
      ret        |-> "inside" ]       \* inside: run has not returned yet

\* (variant) the lambda connected to another signal than finished
ConnectOtherSignal(p, requestId) ==
    [ sender |-> 0, call |-> p, proc |-> p, requestId |-> requestId ]

\* processrunner.cpp:7-8  the connection run makes: the sender is the new
\* QProcess, the lambda holds copies of the pointer and of requestId
Connect(p, requestId) ==
    [ sender |-> p, call |-> p, proc |-> p, requestId |-> requestId ]

\* (variant) the pointer kept in a member that every run overwrites
CapturedProcLatest(h, c) == Len(h.procs)

\* processrunner.cpp:8  the QProcess the lambda reads and releases is the
\* one it captured
CapturedProc(h, c) == c.proc

\* (variant) the identifier kept in a member that every run overwrites
CapturedRequestIdLatest(h, c) == h.procs[Len(h.procs)].requestId

\* processrunner.cpp:8,10  the identifier the lambda reports is its copy
CapturedRequestId(h, c) == c.requestId

\* processrunner.cpp:8-12  the lambda, on the heap h = [procs, emitted,
\* useAfterFree].  Touching a deleted QProcess is recorded; with the
\* connections run makes, the sender is the captured object and is alive.
Lambda(h, c, exitCode, status) ==
    LET p == CapturedProc(h, c)
        gone == h.procs[p].obj \in {"deleted", "destroyed"}
        output == fromUtf8(h.procs[p].stdoutBuf)
        event == [ requestId  |-> CapturedRequestId(h, c),
                   stdoutData |-> output,
                   exitCode   |-> exitCode ]
    IN  [ h EXCEPT !.procs[p].stdoutBuf = <<>>,
                   !.procs[p].obj = IF @ = "live" THEN "deleteLater" ELSE @,
                   !.emitted[c.call] = Append(@, event),
                   !.useAfterFree = @ \/ gone ]

RECURSIVE InvokeSlots(_, _, _, _, _)
\* QProcess::finished(exitCode, status) of `sender`: every connection of
\* that sender is invoked, in the order the connections were made
InvokeSlots(h, conns, sender, exitCode, status) ==
    IF conns = <<>> THEN h
    ELSE LET c == Head(conns)
             h2 == IF c.sender = sender
                   THEN Lambda(h, c, exitCode, status)
                   ELSE h
         IN  InvokeSlots(h2, Tail(conns), sender, exitCode, status)

\* (variant) a handler of errorOccurred that reports the failure
ErrorOccurredReports(h, p) ==
    [ h EXCEPT !.emitted[p] = Append(@, [ requestId  |-> h.procs[p].requestId,
                                          stdoutData |-> <<>>,
                                          exitCode   |-> -1 ]) ]

\* (variant) a handler of errorOccurred that releases the object
ErrorOccurredReleases(h, p) == [ h EXCEPT !.procs[p].obj = "deleteLater" ]

\* processrunner.cpp:7-12  nothing is connected to QProcess::errorOccurred
ErrorOccurredSlots(h, p) == h

\* (variant) completion awaited inside run, as with waitForFinished
CanDispatchInsideRun == runnerAlive

\* main.cpp:78  a callback of the event loop runs only inside app.exec(),
\* and never while another handler of the UI thread is running
CanDispatch == mainPc = "exec" /\ uiBusy = 0

\* QML code can call CLI.run while main.qml is being loaded and from the
\* handlers the event loop runs
CanCallRun == mainPc \in {"loading", "exec"} /\ uiBusy = 0 /\ runnerAlive

RECURSIVE Sum(_)
Sum(ns) == IF ns = <<>> THEN 0 ELSE Head(ns) + Sum(Tail(ns))

TotalWrites == Sum([i \in DOMAIN procs |-> procs[i].writes])
\* bytes of standard error held by the QProcess objects, never read
TotalErrHeld == Sum([i \in DOMAIN procs |-> Len(procs[i].stderrBuf)])

\* QObject ownership: destroying the ProcessRunner destroys the QProcess
\* objects it still owns (main.cpp:55, processrunner.cpp:6).  Of a destroyed
\* object only the history of a completion already reported is kept.
DestroyChildren(ps, ems) ==
    [ i \in DOMAIN ps |->
        IF ps[i].obj \in {"live", "deleteLater"}
        THEN [ NewProcess(ps[i].requestId, ps[i].arguments) EXCEPT
                 !.state = "NotRunning",
                 !.obj = "destroyed",
                 !.ret = ps[i].ret,
                 !.exitCode = IF ems[i] = <<>> THEN 0 ELSE ps[i].exitCode,
                 !.wrote = IF ems[i] = <<>> THEN <<>> ELSE ps[i].wrote ]
        ELSE ps[i] ]

\* the request identifiers are interchangeable: the first call's is fixed
RequestIdsFor(ps) == IF ps = <<>> THEN {"r1"} ELSE RequestIds

\* processrunner.cpp:5-13  run: new QProcess(this), connect, start
RunCall(requestId, args) ==
    /\ CanCallRun
    /\ Len(procs) < MaxRuns
    /\ LET p == Len(procs) + 1 IN
        /\ procs' = Append(procs, NewProcess(requestId, args))
        /\ connections' = Append(connections, Connect(p, requestId))
        /\ emitted' = Append(emitted, <<>>)
        /\ uiBusy' = p
    /\ UNCHANGED <<useAfterFree, runnerAlive>>
    /\ UNCHANGED mainVars

\* processrunner.cpp:14  run returns; it returns nothing
RunReturn ==
    /\ uiBusy # 0
    /\ procs' = [procs EXCEPT ![uiBusy].ret = "void"]
    /\ uiBusy' = 0
    /\ UNCHANGED <<connections, emitted, useAfterFree, runnerAlive>>
    /\ UNCHANGED mainVars

\* the operating system starts the child
LaunchOk(p) ==
    /\ runnerAlive
    /\ procs[p].state = "Starting"
    /\ procs' = [procs EXCEPT ![p].state = "Running"]
    /\ UNCHANGED <<connections, emitted, uiBusy, useAfterFree, runnerAlive>>
    /\ UNCHANGED mainVars

\* the child cannot be started: QProcess goes back to NotRunning with the
\* error FailedToStart and emits errorOccurred, not finished
LaunchFail(p) ==
    /\ runnerAlive
    /\ procs[p].state = "Starting"
    /\ LET h0 == [ procs |-> [procs EXCEPT ![p].state = "NotRunning",
                                           ![p].error = "FailedToStart"],
                   emitted |-> emitted,
                   useAfterFree |-> useAfterFree ]
           h1 == ErrorOccurredSlots(h0, p)
       IN  /\ procs' = h1.procs
           /\ emitted' = h1.emitted
           /\ useAfterFree' = h1.useAfterFree
    /\ UNCHANGED <<connections, uiBusy, runnerAlive>>
    /\ UNCHANGED mainVars

\* the child writes to standard output; QProcess buffers the bytes
ChildWriteOut(p, bytes) ==
    /\ runnerAlive
    /\ procs[p].state = "Running"
    /\ TotalWrites < MaxWrites
    /\ procs' = [procs EXCEPT ![p].stdoutBuf = @ \o bytes,
                              ![p].wrote = @ \o bytes,
                              ![p].writes = @ + 1]
    /\ UNCHANGED <<connections, emitted, uiBusy, useAfterFree, runnerAlive>>
    /\ UNCHANGED mainVars

\* the child writes to standard error
ChildWriteErr(p, bytes) ==
    /\ runnerAlive
    /\ procs[p].state = "Running"
    /\ TotalErrHeld + Len(bytes) <= MaxErrHeld
    /\ procs' = IF processChannelMode = "MergedChannels"
                THEN [procs EXCEPT ![p].stdoutBuf = @ \o bytes]
                ELSE [procs EXCEPT ![p].stderrBuf = @ \o bytes]
    /\ UNCHANGED <<connections, emitted, uiBusy, useAfterFree, runnerAlive>>
    /\ UNCHANGED mainVars

\* the child ends, by exiting or by crashing
ChildExit(p, exitCode, status) ==
    /\ runnerAlive
    /\ procs[p].state = "Running"
    /\ procs' = [procs EXCEPT ![p].state = "Exited",
                              ![p].exitCode = exitCode,
                              ![p].exitStatus = status]
    /\ UNCHANGED <<connections, emitted, uiBusy, useAfterFree, runnerAlive>>
    /\ UNCHANGED mainVars

\* the event loop learns that the child of p has ended: QProcess becomes
\* NotRunning and emits finished, which runs the lambda (cpp:8-12)
ProcessDied(p) ==
    /\ runnerAlive
    /\ CanDispatch
    /\ procs[p].state = "Exited"
    /\ procs[p].obj \in {"live", "deleteLater"}
    /\ LET h0 == [ procs |-> [procs EXCEPT ![p].state = "NotRunning"],
                   emitted |-> emitted,
                   useAfterFree |-> useAfterFree ]
           h1 == InvokeSlots(h0, connections, p, procs[p].exitCode, procs[p].exitStatus)
       IN  /\ procs' = h1.procs
           /\ emitted' = h1.emitted
           /\ useAfterFree' = h1.useAfterFree
    /\ UNCHANGED <<connections, uiBusy, runnerAlive>>
    /\ UNCHANGED mainVars

\* processrunner.cpp:11  the event loop deletes an object deleteLater was
\* called on; its connections go with it
DeferredDelete(p) ==
    /\ runnerAlive
    /\ CanDispatch
    /\ procs[p].obj = "deleteLater"
    /\ procs' = [procs EXCEPT ![p].obj = "deleted",
                              ![p].stdoutBuf = <<>>,
                              ![p].stderrBuf = <<>>]
    /\ connections' = SelectSeq(connections, LAMBDA c : c.sender # p)
    /\ UNCHANGED <<emitted, uiBusy, useAfterFree, runnerAlive>>
    /\ UNCHANGED mainVars

-----------------------------------------------------------------------------
(* main().                                                                 *)

ThemeVar == "QT_QUICK_CONTROLS_MATERIAL_THEME"
XhrVar == "QML_XHR_ALLOW_FILE_READ"

\* (variant) toBool given the default true
IsDarkDefaultLight(sess) == ~toBool(ObjectValue(sess, "isLightMode"), TRUE)

\* main.cpp:42
IsDark(sess) == ~toBool(ObjectValue(sess, "isLightMode"), FALSE)

\* main.cpp:45
ThemeName(dark) == IF dark THEN "Dark" ELSE "Light"

\* (variant) the check of the root objects left out
LoadFailedNever(n) == n < 0

\* main.cpp:72
LoadFailed(n) == n = 0

\* main.cpp:74
FailureReturn == -1

\* the exit status of a process is the low eight bits of what main returns
ExitStatusOf(r) == r % 256

\* main.cpp:35-36
MainInstall ==
    /\ mainPc = "start"
    /\ env' = [env EXCEPT ![XhrVar] = "1"]
    /\ mainPc' = "read_session"
    /\ UNCHANGED <<sessionFile, session, isDark, rootObjects, execEntered, exitStatus>>
    /\ UNCHANGED <<runnerAlive, runnerVars>>

\* main.cpp:39-42
MainReadSession ==
    /\ mainPc = "read_session"
    /\ session' = readJsonFile(sessionFile)
    /\ isDark' = IsDark(session')
    /\ mainPc' = "set_theme"
    /\ UNCHANGED <<sessionFile, env, rootObjects, execEntered, exitStatus>>
    /\ UNCHANGED <<runnerAlive, runnerVars>>

\* main.cpp:45
MainSetTheme ==
    /\ mainPc = "set_theme"
    /\ env' = [env EXCEPT ![ThemeVar] = ThemeName(isDark)]
    /\ mainPc' = "create_app"
    /\ UNCHANGED <<sessionFile, session, isDark, rootObjects, execEntered, exitStatus>>
    /\ UNCHANGED <<runnerAlive, runnerVars>>

\* main.cpp:47-69  the application, the engine and the ProcessRunner
MainCreateApp ==
    /\ mainPc = "create_app"
    /\ runnerAlive' = TRUE
    /\ mainPc' = "load"
    /\ UNCHANGED <<sessionFile, session, isDark, env, rootObjects, execEntered, exitStatus>>
    /\ UNCHANGED runnerVars

\* main.cpp:71  engine.load starts evaluating main.qml
MainLoadBegin ==
    /\ mainPc = "load"
    /\ mainPc' = "loading"
    /\ UNCHANGED <<sessionFile, session, isDark, env, rootObjects, execEntered, exitStatus>>
    /\ UNCHANGED <<runnerAlive, runnerVars>>

\* main returns: the application object is destroyed, and with it the
\* ProcessRunner and the QProcess objects it owns
MainReturn(r) ==
    /\ mainPc' = "returned"
    /\ exitStatus' = ExitStatusOf(r)
    /\ runnerAlive' = FALSE
    /\ procs' = DestroyChildren(procs, emitted)
    /\ connections' = <<>>
    /\ UNCHANGED <<emitted, uiBusy, useAfterFree>>

\* main.cpp:71-78  engine.load returns with n root objects; with none main
\* returns -1, else it enters the event loop
MainLoadEnd(n) ==
    /\ mainPc = "loading"
    /\ uiBusy = 0
    /\ rootObjects' = n
    /\ IF LoadFailed(n)
       THEN /\ MainReturn(FailureReturn)
            /\ UNCHANGED execEntered
       ELSE /\ mainPc' = "exec"
            /\ execEntered' = TRUE
            /\ UNCHANGED <<exitStatus, runnerAlive, runnerVars>>
    /\ UNCHANGED <<sessionFile, session, isDark, env>>

\* main.cpp:78  the event loop ends and app.exec() returns r
MainExecReturn(r) ==
    /\ mainPc = "exec"
    /\ uiBusy = 0
    /\ MainReturn(r)
    /\ UNCHANGED <<sessionFile, session, isDark, env, rootObjects, execEntered>>

-----------------------------------------------------------------------------
(* Specifications.                                                         *)

InitRest ==
    /\ mainPc = "start"
    /\ session = EmptyObject
    /\ isDark = TRUE
    /\ env = [v \in {ThemeVar, XhrVar} |-> ""]
    /\ rootObjects = 0
    /\ execEntered = FALSE
    /\ exitStatus = 0
    /\ runnerAlive = FALSE
    /\ procs = <<>>
    /\ connections = <<>>
    /\ emitted = <<>>
    /\ uiBusy = 0
    /\ useAfterFree = FALSE

\* the process bridge, started with no session file on disk
Init ==
    /\ sessionFile = [status |-> "missing", text |-> <<>>]
    /\ InitRest

\* the bootstrap, started with any of the session files
InitBoot ==
    /\ sessionFile \in SessionFiles
    /\ InitRest

MainNext ==
    \/ MainInstall
    \/ MainReadSession
    \/ MainSetTheme
    \/ MainCreateApp
    \/ MainLoadBegin
    \/ \E n \in RootCounts : MainLoadEnd(n)
    \/ \E r \in ExecResults : MainExecReturn(r)

UiNext ==
    \/ \E requestId \in RequestIdsFor(procs), args \in ArgLists : RunCall(requestId, args)
    \/ RunReturn

\* the life of a child: launched or not, and ended
OsLifeNext ==
    \/ \E p \in DOMAIN procs : LaunchOk(p)
    \/ \E p \in DOMAIN procs : LaunchFail(p)
    \/ \E p \in DOMAIN procs, e \in ChildEnds : ChildExit(p, e[1], e[2])

\* what a child writes
OsWriteNext ==
    \/ \E p \in DOMAIN procs, bytes \in OutChunks : ChildWriteOut(p, bytes)
    \/ \E p \in DOMAIN procs, bytes \in ErrChunks : ChildWriteErr(p, bytes)

OsNext == OsLifeNext \/ OsWriteNext

LoopNext ==
    \/ \E p \in DOMAIN procs : ProcessDied(p)
    \/ \E p \in DOMAIN procs : DeferredDelete(p)

Next == MainNext \/ UiNext \/ OsNext \/ LoopNext

Spec == Init /\ [][Next]_vars

SpecBoot == InitBoot /\ [][MainNext]_vars

\* The UI thread keeps running: main goes on to the event loop, a run call
\* returns, and the event loop delivers what is pending.  Nothing obliges a
\* child to be launched, to write or to exit, nor the user to quit.
Fairness ==
    /\ WF_vars(MainInstall \/ MainReadSession \/ MainSetTheme \/ MainCreateApp
                  \/ MainLoadBegin \/ (\E n \in RootCounts : MainLoadEnd(n)))
    /\ WF_vars(RunReturn)
    /\ \A p \in 1..MaxRuns : WF_vars(p \in DOMAIN procs /\ ProcessDied(p))
    /\ \A p \in 1..MaxRuns : WF_vars(p \in DOMAIN procs /\ DeferredDelete(p))

\* Whether a completion is delivered does not depend on what the child
\* wrote (no guard reads a buffer), so the children here write nothing.
FairNext == MainNext \/ UiNext \/ OsLifeNext \/ LoopNext

FairSpec == Init /\ [][FairNext]_vars /\ Fairness

-----------------------------------------------------------------------------
(* Properties.                                                             *)

Calls == DOMAIN procs

Events(p) == { emitted[p][i] : i \in DOMAIN emitted[p] }

Reported(p) == emitted[p] # <<>>

\* the number of events of call p, none for a call not made yet
EventCount(p) == IF p \in Calls THEN Len(emitted[p]) ELSE 0

\* the child of call p has ended and the event loop has not been told yet
ChildEnded(p) == p \in Calls /\ procs[p].state = "Exited"

\* an event was emitted in this step (not: a run call added its empty log)
Emits(p) == p \in Calls /\ emitted'[p] # emitted[p]

\* QString::toUtf8, for characters below U+0800
RECURSIVE Utf8Encode(_)
Utf8Encode(text) ==
    IF text = <<>> THEN <<>>
    ELSE LET ch == Head(text) IN
         (IF ch < 128 THEN <<ch>> ELSE <<192 + (ch \div 64), 128 + (ch % 64)>>)
         \o Utf8Encode(Tail(text))

\* the child's output is well-formed UTF-8
RECURSIVE WellFormed(_)
WellFormed(bytes) ==
    \/ bytes = <<>>
    \/ Head(bytes) < 128 /\ WellFormed(Tail(bytes))
    \/ /\ Len(bytes) >= 2
       /\ Head(bytes) \in 194..223
       /\ bytes[2] \in 128..191
       /\ WellFormed(Tail(Tail(bytes)))

\* C1: every run call has produced at most one finished event, and that
\* event carries the requestId that was passed to the call.
C1_AtMostOneEventSameId ==
    \A p \in Calls :
        /\ Len(emitted[p]) <= 1
        /\ \A e \in Events(p) : e.requestId = procs[p].requestId

\* two calls with different identifiers, both reported
C1_Witness ==
    \E p, q \in Calls :
        /\ procs[p].requestId # procs[q].requestId
        /\ Len(emitted[p]) = 1 /\ Len(emitted[q]) = 1

\* C2 as stated: every run call is eventually followed by exactly one
\* finished event, as long as the ProcessRunner is not destroyed.
C2_EveryCallReported ==
    \A p \in 1..MaxRuns :
        [](p \in Calls => <>(~runnerAlive \/ EventCount(p) = 1))

\* C2, amended: every run call whose child was launched and has ended is
\* eventually followed by exactly one finished event, as long as the
\* ProcessRunner is not destroyed; and never by a second one.
C2_EveryEndedChildReported ==
    /\ \A p \in 1..MaxRuns :
          [](ChildEnded(p) => <>(~runnerAlive \/ EventCount(p) = 1))
    /\ [][\A p \in Calls : Len(emitted[p]) = 1 => Len(emitted'[p]) = 1]_vars

\* a call reported after its child ended, the ProcessRunner still there
C2_Witness ==
    \E p \in Calls :
        runnerAlive /\ procs[p].state = "NotRunning" /\ Len(emitted[p]) = 1

\* C3: a launch that fails is reported by no finished event, then or later;
\* run returns nothing; the launch is not tried again.
C3_LaunchFailureSilent ==
    /\ [](\A p \in Calls :
            procs[p].error = "FailedToStart"
                => /\ emitted[p] = <<>>
                   /\ procs[p].starts = 1
                   /\ procs[p].ret \in {"inside", "void"})
    /\ [][\A p \in Calls :
            procs[p].error = "FailedToStart"
                => emitted'[p] = <<>> /\ procs'[p].starts = 1]_vars

\* a failed launch, after run has returned, with the event loop running
C3_Witness ==
    \E p \in Calls :
        /\ procs[p].error = "FailedToStart"
        /\ procs[p].ret = "void"
        /\ mainPc = "exec"

\* C4: a finished event is emitted only by a callback of the event loop,
\* after the run call it belongs to has returned and after the child ended.
C4_ReportIsAsynchronous ==
    /\ [](\A p \in Calls :
            Reported(p) => procs[p].ret = "void" /\ procs[p].state = "NotRunning")
    /\ [][\A p \in Calls :
            Emits(p) => /\ mainPc = "exec" /\ uiBusy = 0
                        /\ procs[p].ret = "void"
                        /\ procs[p].state = "Exited"]_vars

\* a child that has ended before its run call returned, not yet reported
C4_Witness ==
    \E p \in Calls :
        uiBusy = p /\ procs[p].state = "Exited" /\ ~Reported(p)

\* C5: a finished event carries the exit code of its child and, decoded,
\* all that the child wrote to standard output; nothing of standard error.
C5_EventCarriesOutputAndCode ==
    \A p \in Calls : \A e \in Events(p) :
        /\ e.exitCode = procs[p].exitCode
        /\ e.stdoutData = fromUtf8(procs[p].wrote)
        /\ WellFormed(procs[p].wrote) => Utf8Encode(e.stdoutData) = procs[p].wrote

\* a reported child that wrote U+00E9 to standard output, wrote to standard
\* error as well, and ended with code 1
C5_Witness ==
    \E p \in Calls :
        /\ Reported(p)
        /\ procs[p].wrote = <<195, 169>>
        /\ procs[p].stderrBuf # <<>>
        /\ procs[p].exitCode = 1

\* C6: with no root object main returns a nonzero status and never enters
\* the event loop; the event loop is entered only after a successful load.
C6_LoadFailureIsFatal ==
    /\ mainPc = "returned" /\ rootObjects = 0 => exitStatus # 0 /\ ~execEntered
    /\ execEntered => rootObjects > 0
    /\ mainPc = "exec" => execEntered

\* main has returned after a load that gave no root object
C6_Witness == mainPc = "returned" /\ rootObjects = 0 /\ exitStatus = 255

\* C7: the theme variable is set before the application is created; it is
\* "Light" exactly when the session file opens and holds a JSON object
\* whose "isLightMode" is the boolean true, and "Dark" in every other case;
\* main then goes on to create the application and load the UI.
C7_ThemeFollowsSession ==
    LET theme == env[ThemeVar]
        light == sessionFile.status = "ok" /\ sessionFile.text \in LightTexts
    IN  /\ theme \in {"", "Light", "Dark"}
        /\ theme = "Light" => light
        /\ theme = "Dark" => ~light
        /\ theme = "" <=> mainPc \in {"start", "read_session", "set_theme"}
        /\ runnerAlive => theme # ""
        /\ mainPc = "returned" => theme # "" /\ (execEntered \/ rootObjects = 0)

\* a session file whose "isLightMode" is a string: Dark, and the event loop
\* is reached
C7_Witness ==
    /\ sessionFile = [status |-> "ok", text |-> <<LB, KeyLight, COLON, Str("true"), RB>>]
    /\ env[ThemeVar] = "Dark"
    /\ mainPc = "exec"

\* C8 as stated: no QProcess is released, or scheduled for release, before
\* its completion has been reported, and no callback touches a released one.
C8_ReleasedOnlyAfterReport ==
    /\ \A p \in Calls :
          procs[p].obj \in {"deleteLater", "deleted", "destroyed"} => Reported(p)
    /\ ~useAfterFree

\* C8, amended: while the ProcessRunner exists, a QProcess is scheduled for
\* release only by its own completion callback, after the finished event;
\* an unreported QProcess is released only when the ProcessRunner itself
\* is destroyed.  No callback touches a released object.
C8_ReleasedByCallbackOrWithRunner ==
    /\ \A p \in Calls :
          /\ procs[p].obj \in {"deleteLater", "deleted"} => Reported(p)
          /\ procs[p].obj = "destroyed" => ~runnerAlive
    /\ ~useAfterFree

\* a QProcess deleted by the event loop after its report
C8_Witness ==
    \E p \in Calls : runnerAlive /\ procs[p].obj = "deleted" /\ Reported(p)

LiveObjects == { p \in Calls : procs[p].obj = "live" }

Stuck == { p \in Calls : procs[p].error = "FailedToStart" \/ procs[p].state \in {"Starting", "Running"} }

\* C9: while the ProcessRunner exists, a QProcess whose launch failed or
\* whose child has not ended stays alive; every run call adds one live
\* object; the objects of failed launches never become fewer.
C9_StuckObjectsStay ==
    /\ [](runnerAlive => Stuck \subseteq LiveObjects)
    /\ [][Len(procs') = Len(procs) + 1
            => Cardinality(LiveObjects') = Cardinality(LiveObjects) + 1]_vars
    /\ [][runnerAlive'
            => \A p \in Calls : procs[p].error = "FailedToStart"
                   => procs'[p].error = "FailedToStart" /\ procs'[p].obj = "live"]_vars

\* two failed launches, both objects alive, the event loop idle
C9_Witness ==
    /\ runnerAlive /\ mainPc = "exec" /\ uiBusy = 0
    /\ \E p, q \in Calls :
          /\ p # q
          /\ procs[p].error = "FailedToStart" /\ procs[p].obj = "live"
          /\ procs[q].error = "FailedToStart" /\ procs[q].obj = "live"

\* C10: run is accepted while earlier launches are outstanding, with a new
\* or a repeated requestId; every call has its own QProcess; the events of
\* a call are those of its own launch, whatever the order of completion.
C10_OutstandingLaunchesIndependent ==
    /\ \A i, j \in DOMAIN connections :
          i # j => connections[i].proc # connections[j].proc
    /\ \A i \in DOMAIN connections :
          connections[i].sender = connections[i].proc
    /\ CanCallRun /\ Len(procs) < MaxRuns
          => \A r \in RequestIds, a \in ArgLists : ENABLED RunCall(r, a)
    /\ \A p \in Calls : \A i \in DOMAIN emitted[p] :
          emitted[p][i] = [ requestId  |-> procs[p].requestId,
                            stdoutData |-> fromUtf8(procs[p].wrote),
                            exitCode   |-> procs[p].exitCode ]

\* two launches with the same requestId; the later one is reported, with
\* output and exit code of its own, while the earlier one is still running
C10_Witness ==
    \E p, q \in Calls :
        /\ p < q
        /\ procs[p].requestId = procs[q].requestId
        /\ procs[p].state = "Running" /\ procs[p].wrote = <<65, 195>>
        /\ Reported(q) /\ procs[q].exitCode = 1 /\ procs[q].wrote = <<>>

=============================================================================
